---- MODULE Spec2Model ----
(***************************************************************************)
(* A model of the text-suggestion engine: the prefix tree (core/trie.py), *)
(* the word completor (core/word_completor.py), the n-gram model          *)
(* (core/ngram.py), the combiner of the two (core/text_suggestion.py) and *)
(* the reactive State of the application (app/state.py).                  *)
(*                                                                         *)
(* A Python str is a sequence of one-character strings; a token is a      *)
(* non-empty str without whitespace.  A Python dict / Counter, whose      *)
(* iteration order is its insertion order, is a sequence of <<key, value>> *)
(* pairs with distinct keys.  A probability count / total is the fraction *)
(* <<count, total>>; fractions are compared by cross-multiplication, which *)
(* is the order and the equality of the IEEE quotients at these sizes.    *)
(***************************************************************************)
EXTENDS Integers, Sequences, FiniteSets, TLC

VARIABLES
    corpus,          \* _corpus: the tokenised corpus the models are built from
    min_freq,        \* the min_freq the WordCompletor was constructed with
    counter,         \* WordCompletor.counter
    total_count,     \* WordCompletor.total_count
    vocabulary,      \* the list handed to PrefixTree(...)
    prefix_tree,     \* PrefixTree: path |-> node
    ngram,           \* NGramLanguageModel: [built, n, next_counts, context_totals]
    text,            \* State.text
    suggestions,     \* State.suggestions
    ghost_suffix,    \* State.ghost_suffix
    raised,          \* an exception left the last event handler
    event,           \* the last UI event handled
    query            \* the query a core object answered since the last event, with its result

model_vars == <<corpus, min_freq, counter, total_count, vocabulary, prefix_tree, ngram>>
ui_vars == <<text, suggestions, ghost_suffix, raised, event>>
vars == <<corpus, min_freq, counter, total_count, vocabulary, prefix_tree, ngram,
          text, suggestions, ghost_suffix, raised, event, query>>

----------------------------------------------------------------------------
(* Bounds of the model. *)

\* longest text buffer
MaxText == 4
\* longest document of a corpus of the core specification
MaxDocLen == 3
\* largest model order tried at construction
MaxOrder == 2
\* largest min_freq tried at construction
MaxMinFreq == 2
\* longest vocabulary list handed directly to PrefixTree
MaxVocab == 3

Letters == {"a", "b"}
Space == " "
Chars == Letters \cup {Space}

\* every str over S of length lo..hi
StrsOver(S, lo, hi) == UNION {[1..k -> S] : k \in lo..hi}

\* the words over Letters of one or two letters
Words == StrsOver(Letters, 1, 2)
\* the prefixes queried: every str over Letters up to three letters
Prefixes == StrsOver(Letters, 0, 3)

----------------------------------------------------------------------------
(* Python str and list primitives. *)

isspace(c) == c = Space

Last(s) == s[Len(s)]

RECURSIVE lstrip(_)
lstrip(s) ==
    IF s # <<>> /\ isspace(Head(s)) THEN lstrip(Tail(s)) ELSE s

RECURSIVE rstrip(_)
rstrip(s) ==
    IF s # <<>> /\ isspace(Last(s)) THEN rstrip(SubSeq(s, 1, Len(s) - 1)) ELSE s

\* s.split(): the maximal runs of non-whitespace characters, in order.
\* cur is the run being read, out the runs already closed.
RECURSIVE SplitFrom(_, _, _)
SplitFrom(s, cur, out) ==
    IF s = <<>> THEN (IF cur = <<>> THEN out ELSE Append(out, cur))
    ELSE IF isspace(Head(s))
         THEN SplitFrom(Tail(s), <<>>, IF cur = <<>> THEN out ELSE Append(out, cur))
         ELSE SplitFrom(Tail(s), Append(cur, Head(s)), out)

split(s) == SplitFrom(s, <<>>, <<>>)

\* " ".join(parts)
RECURSIVE join(_)
join(parts) ==
    IF parts = <<>> THEN <<>>
    ELSE IF Len(parts) = 1 THEN parts[1]
    ELSE parts[1] \o <<Space>> \o join(Tail(parts))

startswith(s, p) == Len(p) <= Len(s) /\ SubSeq(s, 1, Len(p)) = p

\* s[:k]
Take(s, k) == SubSeq(s, 1, IF k < Len(s) THEN k ELSE Len(s))

\* s[k:]
Drop(s, k) == SubSeq(s, k + 1, Len(s))

Contains(s, x) == \E i \in 1..Len(s) : s[i] = x

Range(s) == {s[i] : i \in 1..Len(s)}

NoDuplicates(s) == \A i, j \in 1..Len(s) : s[i] = s[j] => i = j

RECURSIVE SumSeq(_)
SumSeq(s) == IF s = <<>> THEN 0 ELSE Head(s) + SumSeq(Tail(s))

\* every ordering of the finite set S, as a sequence without repetition
Orderings(S) == {p \in [1..Cardinality(S) -> S] : \A x \in S : \E i \in DOMAIN p : p[i] = x}

----------------------------------------------------------------------------
(* dict / Counter with insertion order. *)

Keys(d) == [i \in 1..Len(d) |-> d[i][1]]

Values(d) == [i \in 1..Len(d) |-> d[i][2]]

Has(d, k) == \E i \in 1..Len(d) : d[i][1] = k

\* d[k] for a key that is present
Get(d, k) == d[CHOOSE i \in 1..Len(d) : d[i][1] = k][2]

\* d[k] = v
Put(d, k, v) ==
    IF Has(d, k)
    THEN [i \in 1..Len(d) |-> IF d[i][1] = k THEN <<k, v>> ELSE d[i]]
    ELSE Append(d, <<k, v>>)

\* Counter: c[k] += 1, a missing key counting 0
Increment(c, k) == Put(c, k, (IF Has(c, k) THEN Get(c, k) ELSE 0) + 1)

----------------------------------------------------------------------------
(* core/trie.py: the prefix tree.  A tree is a function from the path of a *)
(* node (the characters from the root) to the node; children holds the    *)
(* keys of the node's children dict in insertion order.                   *)

PrefixTreeNode == [children |-> <<>>, is_end_of_word |-> FALSE]

\* _insert: the loop over the characters of word, i of them already followed
RECURSIVE InsertFrom(_, _, _)
InsertFrom(tree, word, i) ==
    LET path == SubSeq(word, 1, i) IN
    IF i = Len(word)
    THEN [tree EXCEPT ![path].is_end_of_word = TRUE]
    ELSE LET char == word[i + 1]
             child == Append(path, char)
             grown == IF Contains(tree[path].children, char)
                      THEN tree
                      ELSE [tree EXCEPT ![path].children = Append(@, char)]
                               @@ (child :> PrefixTreeNode)
         IN InsertFrom(grown, word, i + 1)

insert(tree, word) == InsertFrom(tree, word, 0)

RECURSIVE InsertAll(_, _)
InsertAll(tree, words) ==
    IF words = <<>> THEN tree ELSE InsertAll(insert(tree, Head(words)), Tail(words))

\* PrefixTree(vocabulary): order is the order in which set(vocabulary) is
\* iterated, which the hash of the strings decides.
PrefixTree(order) == InsertAll(<<>> :> PrefixTreeNode, order)

\* the iteration orders set(vocabulary) may have
SetOrders(vocab) == Orderings(Range(vocab))

RECURSIVE collect_every_node(_, _)
RECURSIVE CollectEveryChild(_, _, _)
\* _collect_words without the test of is_end_of_word
collect_every_node(tree, prefix) ==
    <<prefix>> \o CollectEveryChild(tree, prefix, tree[prefix].children)

CollectEveryChild(tree, prefix, chars) ==
    IF chars = <<>> THEN <<>>
    ELSE collect_every_node(tree, Append(prefix, Head(chars)))
             \o CollectEveryChild(tree, prefix, Tail(chars))

RECURSIVE collect_words(_, _)
RECURSIVE CollectChildren(_, _, _)
\* _collect_words: the words at and below the node at path prefix, depth first
collect_words(tree, prefix) ==
    (IF tree[prefix].is_end_of_word THEN <<prefix>> ELSE <<>>)
        \o CollectChildren(tree, prefix, tree[prefix].children)

\* the loop of _collect_words over node.children.items()
CollectChildren(tree, prefix, chars) ==
    IF chars = <<>> THEN <<>>
    ELSE collect_words(tree, Append(prefix, Head(chars)))
             \o CollectChildren(tree, prefix, Tail(chars))

\* search_prefix: the descent along prefix, i characters already followed
RECURSIVE SearchFrom(_, _, _)
SearchFrom(tree, prefix, i) ==
    LET path == SubSeq(prefix, 1, i) IN
    IF i = Len(prefix) THEN collect_words(tree, prefix)
    ELSE IF ~Contains(tree[path].children, prefix[i + 1]) THEN <<>>
    ELSE SearchFrom(tree, prefix, i + 1)

search_prefix(tree, prefix) == SearchFrom(tree, prefix, 0)

----------------------------------------------------------------------------
(* core/word_completor.py *)

RECURSIVE CounterUpdate(_, _)
\* Counter.update(doc)
CounterUpdate(c, doc) ==
    IF doc = <<>> THEN c ELSE CounterUpdate(Increment(c, Head(doc)), Tail(doc))

RECURSIVE CountCorpus(_, _)
\* for doc in corpus: self.counter.update(doc)
CountCorpus(c, docs) ==
    IF docs = <<>> THEN c ELSE CountCorpus(CounterUpdate(c, Head(docs)), Tail(docs))

\* the threshold applied as c > min_freq
RECURSIVE FilterCounterStrict(_, _)
FilterCounterStrict(c, mf) ==
    IF c = <<>> THEN <<>>
    ELSE (IF Head(c)[2] > mf THEN <<Head(c)>> ELSE <<>>) \o FilterCounterStrict(Tail(c), mf)

\* {w: c for w, c in self.counter.items() if c >= min_freq}
RECURSIVE FilterCounter(_, _)
FilterCounter(c, mf) ==
    IF c = <<>> THEN <<>>
    ELSE (IF Head(c)[2] >= mf THEN <<Head(c)>> ELSE <<>>) \o FilterCounter(Tail(c), mf)

\* WordCompletor.__init__: the counter after the frequency threshold
BuildCounter(docs, mf) ==
    LET counted == CountCorpus(<<>>, docs) IN
    IF mf > 1 THEN FilterCounter(counted, mf) ELSE counted

\* self.total_count
TotalCount(c) == IF c # <<>> THEN SumSeq(Values(c)) ELSE 0

\* get_words_and_probs(prefix) of the completor (c, total, tree)
get_words_and_probs(c, total, tree, prefix) ==
    LET words == IF prefix = <<>> THEN Keys(c) ELSE search_prefix(tree, prefix) IN
    IF words = <<>> \/ total = 0
    THEN [words |-> <<>>, probs |-> <<>>]
    ELSE [words |-> words,
          probs |-> [i \in 1..Len(words) |-> <<Get(c, words[i]), total>>]]

----------------------------------------------------------------------------
(* core/ngram.py *)

\* the loop over the windows that leaves the last window out
RECURSIVE CountSentenceShort(_, _, _, _)
CountSentenceShort(m, sent, n, i) ==
    IF i >= Len(sent) - n - 1 THEN m
    ELSE LET context == SubSeq(sent, i + 1, i + n)
             next_word == sent[i + n + 1]
             old == IF Has(m.next_counts, context) THEN Get(m.next_counts, context) ELSE <<>>
         IN CountSentenceShort(
                [m EXCEPT !.next_counts = Put(@, context, Increment(old, next_word)),
                          !.context_totals = Increment(@, context)],
                sent, n, i + 1)

\* the loop over i in range(len(sent) - n), from i on (i counts from 0)
RECURSIVE CountSentence(_, _, _, _)
CountSentence(m, sent, n, i) ==
    IF i >= Len(sent) - n THEN m
    ELSE LET context == SubSeq(sent, i + 1, i + n)
             next_word == sent[i + n + 1]
             old == IF Has(m.next_counts, context) THEN Get(m.next_counts, context) ELSE <<>>
         IN CountSentence(
                [m EXCEPT !.next_counts = Put(@, context, Increment(old, next_word)),
                          !.context_totals = Increment(@, context)],
                sent, n, i + 1)

\* the loop over the sentences of the corpus
RECURSIVE CountSentences(_, _, _)
CountSentences(m, docs, n) ==
    IF docs = <<>> THEN m
    ELSE LET sent == Head(docs) IN
         IF sent = <<>> \/ Len(sent) < n
         THEN CountSentences(m, Tail(docs), n)
         ELSE CountSentences(CountSentence(m, sent, n, 0), Tail(docs), n)

\* NGramLanguageModel(corpus, n); built is FALSE when the constructor raised
NGramLanguageModel(docs, n) ==
    IF n < 1
    THEN [built |-> FALSE, n |-> n, next_counts |-> <<>>, context_totals |-> <<>>]
    ELSE CountSentences(
             [built |-> TRUE, n |-> n, next_counts |-> <<>>, context_totals |-> <<>>],
             docs, n)

\* get_next_words_and_probs with the length test written <=
get_next_words_and_probs_le(m, prefix) ==
    IF Len(prefix) <= m.n
    THEN [raised |-> TRUE, words |-> <<>>, probs |-> <<>>]
    ELSE LET context == SubSeq(prefix, Len(prefix) - m.n + 1, Len(prefix)) IN
         IF ~Has(m.next_counts, context)
         THEN [raised |-> FALSE, words |-> <<>>, probs |-> <<>>]
         ELSE LET counts == Get(m.next_counts, context)
                  total == Get(m.context_totals, context)
                  words == Keys(counts)
              IN [raised |-> FALSE, words |-> words,
                  probs |-> [i \in 1..Len(words) |-> <<Get(counts, words[i]), total>>]]

\* get_next_words_and_probs(prefix); raised stands for the ValueError
get_next_words_and_probs(m, prefix) ==
    IF Len(prefix) < m.n
    THEN [raised |-> TRUE, words |-> <<>>, probs |-> <<>>]
    ELSE LET context == SubSeq(prefix, Len(prefix) - m.n + 1, Len(prefix)) IN
         IF ~Has(m.next_counts, context)
         THEN [raised |-> FALSE, words |-> <<>>, probs |-> <<>>]
         ELSE LET counts == Get(m.next_counts, context)
                  total == Get(m.context_totals, context)
                  words == Keys(counts)
              IN [raised |-> FALSE, words |-> words,
                  probs |-> [i \in 1..Len(words) |-> <<Get(counts, words[i]), total>>]]

\* What a query leaves of the object.  next_counts is a defaultdict(Counter):
\* d[key] on a key it does not hold stores an empty Counter under the key.
\* context_totals and the inner tables are Counters: c[key] on a key they do
\* not hold gives 0 and stores nothing; `key in d` stores nothing either.
defaultdict_getitem(d, key) ==
    IF Has(d, key) THEN d ELSE Append(d, <<key, <<>>>>)

\* the object after get_next_words_and_probs without the test
\* `if context not in self.next_counts`
after_lookup_unguarded(m, prefix) ==
    IF Len(prefix) < m.n THEN m
    ELSE LET context == SubSeq(prefix, Len(prefix) - m.n + 1, Len(prefix)) IN
         [m EXCEPT !.next_counts = defaultdict_getitem(@, context)]

\* the object after get_next_words_and_probs(prefix)
after_get_next_words_and_probs(m, prefix) ==
    IF Len(prefix) < m.n THEN m
    ELSE LET context == SubSeq(prefix, Len(prefix) - m.n + 1, Len(prefix)) IN
         IF ~Has(m.next_counts, context) THEN m
         ELSE [m EXCEPT !.next_counts = defaultdict_getitem(@, context)]

----------------------------------------------------------------------------
(* app/state.py: the module-level models and the State event handlers.    *)
(* The handlers read the models built at import: counter, total_count and *)
(* prefix_tree are _word_completor, ngram is _ngram_model.                *)

\* WordCompletor(_corpus, min_freq=1)
AppMinFreq == 1
\* NGramLanguageModel(_corpus, n=2)
AppOrder == 2
\* the number of suggestions the policy fills up to
MaxSuggestions == 3

\* p < q for fractions <<count, total>> with positive totals
FracLess(p, q) == p[1] * q[2] < q[1] * p[2]

\* zip(words, probs)
zip(words, probs) ==
    [i \in 1..(IF Len(words) < Len(probs) THEN Len(words) ELSE Len(probs)) |->
        <<words[i], probs[i]>>]

\* x put into the list s, sorted by descending probability, behind every
\* element that does not sort after it (what keeps the sort stable)
InsertDesc(s, x) ==
    LET k == Cardinality({i \in 1..Len(s) : ~FracLess(s[i][2], x[2])})
    IN SubSeq(s, 1, k) \o <<x>> \o SubSeq(s, k + 1, Len(s))

RECURSIVE SortFrom(_, _)
SortFrom(done, rest) ==
    IF rest = <<>> THEN done ELSE SortFrom(InsertDesc(done, Head(rest)), Tail(rest))

\* the pairs left in the order given
unsorted(pairs) == pairs

\* sorted(pairs, key=lambda x: -x[1]): stable, by descending probability
sorted_desc(pairs) == SortFrom(<<>>, pairs)

\* for w in candidates: if w not in filled: filled.append(w); stop at 3
RECURSIVE FillFrom(_, _)
FillFrom(filled, candidates) ==
    IF candidates = <<>> THEN filled
    ELSE LET w == Head(candidates) IN
         IF Contains(filled, w)
         THEN FillFrom(filled, Tail(candidates))
         ELSE IF Len(filled) + 1 = MaxSuggestions
              THEN Append(filled, w)
              ELSE FillFrom(Append(filled, w), Tail(candidates))

\* backfill_suggestions without the test `w not in filled`
backfill_with_repeats(existing) ==
    IF Len(existing) >= MaxSuggestions THEN Take(existing, MaxSuggestions)
    ELSE LET all == get_words_and_probs(counter, total_count, prefix_tree, <<>>)
             ranked_all == sorted_desc(zip(all.words, all.probs))
         IN Take(existing \o Keys(ranked_all), MaxSuggestions)

\* backfill_suggestions(existing)
backfill_suggestions(existing) ==
    IF Len(existing) >= MaxSuggestions THEN Take(existing, MaxSuggestions)
    ELSE LET all == get_words_and_probs(counter, total_count, prefix_tree, <<>>)
             ranked_all == sorted_desc(zip(all.words, all.probs))
         IN FillFrom(existing, Keys(ranked_all))

\* the query of the n-gram model without the try / except
NextWordsUncaught(tokens) ==
    LET r == get_next_words_and_probs(ngram, tokens) IN
    [raised |-> r.raised, words |-> r.words]

\* try: next_words, _ = _ngram_model.get_next_words_and_probs(tokens)
\* except ValueError: next_words = []
TryNextWords(tokens) ==
    LET r == get_next_words_and_probs(ngram, tokens) IN
    IF r.raised THEN [raised |-> FALSE, words |-> <<>>]
    ELSE [raised |-> FALSE, words |-> r.words]

\* the payload of update_text: a str, or a dict whose "value" is the str
PlainValue(s) == [is_dict |-> FALSE, body |-> s]
DictValue(items) == [is_dict |-> TRUE, body |-> items]

\* if isinstance(value, dict): value = value.get("value", "")
Unwrap(value) ==
    IF value.is_dict
    THEN (IF Has(value.body, "value") THEN Get(value.body, "value") ELSE <<>>)
    ELSE value.body

\* the State fields a handler leaves when an exception ends it at this point
Abort(t, sugg, ghost) ==
    [text |-> t, suggestions |-> sugg, ghost_suffix |-> ghost, raised |-> TRUE]

Done(t, sugg, ghost) ==
    [text |-> t, suggestions |-> sugg, ghost_suffix |-> ghost, raised |-> FALSE]

\* update_text, the branch of a buffer that ends in whitespace
AfterWord(value, tokens) ==
    LET got == TryNextWords(tokens) IN
    IF got.raised THEN Abort(value, suggestions, ghost_suffix)
    ELSE LET sugg == backfill_suggestions(Take(got.words, MaxSuggestions))
         IN Done(value, sugg, IF sugg # <<>> THEN sugg[1] ELSE <<>>)

\* update_text, the branch of a buffer that ends inside a word
MidWord(value, tokens) ==
    IF tokens = <<>> THEN Abort(value, suggestions, ghost_suffix)
    ELSE
    LET prefix == Last(tokens)
        wp == get_words_and_probs(counter, total_count, prefix_tree, prefix)
        ranked == sorted_desc(zip(wp.words, wp.probs))
        completions == Keys(Take(ranked, MaxSuggestions))
        got == IF Len(completions) < MaxSuggestions
               THEN TryNextWords(tokens)
               ELSE [raised |-> FALSE, words |-> <<>>]
    IN IF got.raised THEN Abort(value, suggestions, ghost_suffix)
       ELSE LET padded == IF Len(completions) < MaxSuggestions
                          THEN FillFrom(completions, got.words)
                          ELSE completions
                sugg == backfill_suggestions(padded)
            IN IF sugg # <<>>
               THEN LET best == sugg[1] IN
                    Done(value, sugg,
                         IF startswith(best, prefix) THEN Drop(best, Len(prefix)) ELSE best)
               ELSE Done(value, sugg, <<>>)

\* State.update_text(value): the State fields after the handler
update_text(payload) ==
    LET value == Unwrap(payload)
        stripped == lstrip(value)
    IN IF stripped = <<>> THEN Done(value, <<>>, <<>>)
       ELSE LET last_char == Last(value)
                tokens == split(stripped)
            IN IF isspace(last_char) THEN AfterWord(value, tokens)
               ELSE MidWord(value, tokens)

\* apply_suggestion replacing the last token of a buffer that ends in whitespace too
AppliedTextReplacing(current, word) ==
    IF current = <<>> THEN word \o <<Space>>
    ELSE LET trimmed == rstrip(current) IN
         IF trimmed = <<>> THEN word \o <<Space>>
         ELSE LET parts == split(trimmed) IN
              join([parts EXCEPT ![Len(parts)] = word]) \o <<Space>>

\* apply_suggestion(word): the buffer it sets before it re-runs update_text
AppliedText(current, word) ==
    IF current = <<>> THEN word \o <<Space>>
    ELSE LET trimmed == rstrip(current) IN
         IF trimmed = <<>> THEN word \o <<Space>>
         ELSE IF isspace(Last(current)) THEN current \o word \o <<Space>>
         ELSE LET parts == split(trimmed) IN
              join([parts EXCEPT ![Len(parts)] = word]) \o <<Space>>

\* apply_suggestion without its last line, self.update_text(self.text)
apply_suggestion_stale(word) == Done(AppliedText(text, word), suggestions, ghost_suffix)

\* State.apply_suggestion(word): the State fields after the handler
apply_suggestion(word) == update_text(PlainValue(AppliedText(text, word)))

\* State.on_key_down(key): the State fields after the handler
on_key_down(key) ==
    IF key = "Enter" /\ suggestions # <<>>
    THEN apply_suggestion(suggestions[1])
    ELSE Done(text, suggestions, ghost_suffix)

\* _ngram_model after update_text: the handler queries it once with the
\* tokens of the buffer, in the whitespace branch always and inside a word
\* when the completions are fewer than three
ngram_after_update_text(payload) ==
    LET value == Unwrap(payload)
        stripped == lstrip(value)
        tokens == split(stripped)
    IN IF stripped = <<>> THEN ngram
       ELSE IF isspace(Last(value)) THEN after_get_next_words_and_probs(ngram, tokens)
       ELSE IF tokens = <<>> THEN ngram
       ELSE LET wp == get_words_and_probs(counter, total_count, prefix_tree, Last(tokens))
                completions == Take(zip(wp.words, wp.probs), MaxSuggestions)
            IN IF Len(completions) < MaxSuggestions
               THEN after_get_next_words_and_probs(ngram, tokens)
               ELSE ngram

\* _ngram_model after apply_suggestion and after on_key_down
ngram_after_apply_suggestion(word) ==
    ngram_after_update_text(PlainValue(AppliedText(text, word)))

ngram_after_on_key_down(key) ==
    IF key = "Enter" /\ suggestions # <<>>
    THEN ngram_after_apply_suggestion(suggestions[1])
    ELSE ngram

----------------------------------------------------------------------------
(* core/text_suggestion.py: TextSuggestion over the word completor        *)
(* (counter, total_count, prefix_tree) and the n-gram model (ngram).      *)

\* the defaults of suggest_text: n_words = 3, n_texts = 1
DefaultWords == 3
DefaultTexts == 1

\* the text argument of suggest_text: a str or a list of tokens
StrText(s) == [is_str |-> TRUE, body |-> s]
ListText(tokens) == [is_str |-> FALSE, body |-> tokens]

\* tokens = text.strip().split() if isinstance(text, str) else list(text)
Normalise(t) ==
    IF t.is_str THEN split(rstrip(lstrip(t.body))) ELSE t.body

\* max(range(len(probs)), key=lambda i: probs[i]): the first index whose
\* probability none exceeds
argmax(probs) ==
    CHOOSE i \in 1..Len(probs) :
        /\ \A j \in 1..Len(probs) : ~FracLess(probs[i], probs[j])
        /\ \A j \in 1..(i - 1) : FracLess(probs[j], probs[i])

\* s[:k], k of either sign
SliceTo(s, k) ==
    IF k >= 0 THEN Take(s, k)
    ELSE SubSeq(s, 1, IF Len(s) + k > 0 THEN Len(s) + k ELSE 0)

\* for _ in range(n_words): k is the number of rounds left, m the n-gram
\* model as the rounds so far left it
RECURSIVE GreedyFrom(_, _, _, _)
GreedyFrom(m, suggestion, context_seq, k) ==
    IF k <= 0 THEN [suggestion |-> suggestion, model |-> m]
    ELSE LET r == get_next_words_and_probs(m, context_seq)
             after == after_get_next_words_and_probs(m, context_seq)
         IN IF r.raised \/ r.words = <<>>
            THEN [suggestion |-> suggestion, model |-> after]
            ELSE LET w == r.words[argmax(r.probs)] IN
                 GreedyFrom(after, Append(suggestion, w), Append(context_seq, w), k - 1)

\* suggest_text up to its return statement: whether it came to build a
\* suggestion, the suggestion, and the n-gram model as the call left it
Suggestion(t, n_words) ==
    LET tokens == Normalise(t) IN
    IF tokens = <<>> THEN [found |-> FALSE, suggestion |-> <<>>, model |-> ngram]
    ELSE LET prefix == Last(tokens)
             cand == get_words_and_probs(counter, total_count, prefix_tree, prefix)
         IN IF cand.words = <<>>
            THEN [found |-> FALSE, suggestion |-> <<>>, model |-> ngram]
            ELSE LET completed == cand.words[argmax(cand.probs)]
                     context_seq == Append(SubSeq(tokens, 1, Len(tokens) - 1), completed)
                     g == GreedyFrom(ngram, <<completed>>, context_seq, n_words)
                 IN [found |-> TRUE, suggestion |-> g.suggestion, model |-> g.model]

\* suggest_text(text, n_words, n_texts): the list it returns
suggest_text(t, n_words, n_texts) ==
    LET s == Suggestion(t, n_words) IN
    IF s.found THEN SliceTo(<<s.suggestion>>, n_texts) ELSE <<>>

\* the n-gram model after suggest_text
ngram_after_suggest_text(t, n_words) == Suggestion(t, n_words).model

----------------------------------------------------------------------------
(* The corpora, the construction of the models and the events. *)

W_a == <<"a">>
W_b == <<"b">>
W_aa == <<"a", "a">>
W_ab == <<"a", "b">>
W_ba == <<"b", "a">>
W_bb == <<"b", "b">>

\* The corpora the application is started with: an empty one, vocabularies
\* of fewer than three words, one of the shape of the fallback corpus
\* (a repeated first word, documents of two and three tokens), one whose
\* context (a, a) is first followed by its rarer next word, one whose
\* context (a, b) has four next words, the most frequent of them seen last,
\* and one whose word a is rarer than the word ab it is a prefix of.
AppCorpora ==
    { <<>>,
      << <<W_a>> >>,
      << <<W_a, W_b>> >>,
      << <<W_ab, W_b>>, <<W_ab, W_a>>, <<W_ba, W_a, W_b>> >>,
      << <<W_a, W_a, W_b>>, <<W_a, W_a, W_a, W_a>> >>,
      << <<W_a, W_b, W_ab>>, <<W_a, W_b, W_ba>>, <<W_a, W_b, W_bb>>,
         <<W_a, W_b, W_aa>>, <<W_a, W_b, W_aa>> >>,
      << <<W_ab, W_a, W_ab>> >> }

\* The corpora of the core specification: up to two documents of up to
\* MaxDocLen tokens, of a word and a word it is a prefix of.
CoreTokens == {W_a, W_ab}
CoreDocs == StrsOver(CoreTokens, 0, MaxDocLen)
CoreCorpora == StrsOver(CoreDocs, 0, 2)

\* the token sequences get_next_words_and_probs is queried with
QueryTokens == CoreTokens \cup {W_b}
TokenSeqs == StrsOver(QueryTokens, 0, 3)

NoEvent == [op |-> "none", key |-> "", word |-> <<>>, before |-> <<>>]
NoQuery == [op |-> "none", arg |-> <<>>, result |-> [raised |-> FALSE, words |-> <<>>, probs |-> <<>>]]

\* WordCompletor(docs, mf) and NGramLanguageModel(docs, n)
Construct(docs, mf, n) ==
    /\ corpus = docs
    /\ min_freq = mf
    /\ counter = BuildCounter(docs, mf)
    /\ total_count = TotalCount(counter)
    /\ vocabulary = Keys(counter)
    /\ \E order \in SetOrders(vocabulary) : prefix_tree = PrefixTree(order)
    /\ ngram = NGramLanguageModel(docs, n)

\* class State: text = "", suggestions = [], ghost_suffix = ""
FreshState ==
    /\ text = <<>>
    /\ suggestions = <<>>
    /\ ghost_suffix = <<>>
    /\ raised = FALSE
    /\ event = NoEvent
    /\ query = NoQuery

\* the application after import: the models of state.py and a fresh State
Init ==
    /\ \E docs \in AppCorpora : Construct(docs, AppMinFreq, AppOrder)
    /\ FreshState

\* what the input box can send: the buffer with a character typed or its last
\* character deleted, or the cleared buffer; as a str, as the dict of a
\* change event, or as a dict without "value"
Edits(t) ==
    {Append(t, c) : c \in Chars} \cup {SubSeq(t, 1, Len(t) - 1)} \cup {<<>>}

Payloads(t) ==
    {PlainValue(s) : s \in Edits(t)}
        \cup {DictValue(<< <<"value", s>> >>) : s \in Edits(t)}
        \cup {DictValue(<<>>)}

KeyNames == {"Enter", "Backspace", "a"}

\* A handler ran: r is what it left of the State fields, m what its query
\* left of _ngram_model.  The handlers assign nothing else; the completor
\* methods they call read counter, total_count and prefix_tree only.
Handled(r, ev, m) ==
    /\ text' = r.text
    /\ suggestions' = r.suggestions
    /\ ghost_suffix' = r.ghost_suffix
    /\ raised' = r.raised
    /\ event' = ev
    /\ ngram' = m
    /\ query' = NoQuery
    /\ UNCHANGED <<corpus, min_freq, counter, total_count, vocabulary, prefix_tree>>

UpdateText ==
    \E value \in Payloads(text) :
        /\ Len(Unwrap(value)) <= MaxText
        /\ Handled(update_text(value),
                   [op |-> "update_text", key |-> "", word |-> <<>>, before |-> text],
                   ngram_after_update_text(value))

ApplySuggestion ==
    \E word \in Words :
        /\ Len(AppliedText(text, word)) <= MaxText
        /\ Handled(apply_suggestion(word),
                   [op |-> "apply_suggestion", key |-> "", word |-> word, before |-> text],
                   ngram_after_apply_suggestion(word))

OnKeyDown ==
    \E key \in KeyNames :
        /\ (key = "Enter" /\ suggestions # <<>>)
               => Len(AppliedText(text, suggestions[1])) <= MaxText
        /\ Handled(on_key_down(key),
                   [op |-> "on_key_down", key |-> key,
                    word |-> IF suggestions # <<>> THEN suggestions[1] ELSE <<>>,
                    before |-> text],
                   ngram_after_on_key_down(key))

Next == UpdateText \/ ApplySuggestion \/ OnKeyDown

Spec == Init /\ [][Next]_vars

----------------------------------------------------------------------------
(* The core objects on their own: constructed, then queried. *)

\* A query of a core object returned: m is what it left of the n-gram
\* model.  search_prefix and get_words_and_probs only read their objects.
Answered(op, arg, result, m) ==
    /\ query' = [op |-> op, arg |-> arg, result |-> result]
    /\ ngram' = m
    /\ UNCHANGED <<corpus, min_freq, counter, total_count, vocabulary, prefix_tree, ui_vars>>

\* the n-gram model of any corpus and any order, 0 included
InitNGram ==
    /\ \E docs \in CoreCorpora, n \in 0..MaxOrder : Construct(docs, AppMinFreq, n)
    /\ FreshState

QueryNextWords ==
    \E seq \in TokenSeqs :
        /\ ngram.built
        /\ Answered("get_next_words_and_probs", seq, get_next_words_and_probs(ngram, seq),
                    after_get_next_words_and_probs(ngram, seq))

NextNGram == QueryNextWords

SpecNGram == InitNGram /\ [][NextNGram]_vars

\* the word completor of any corpus and any threshold
InitCompletor ==
    /\ \E docs \in CoreCorpora, mf \in 0..MaxMinFreq : Construct(docs, mf, AppOrder)
    /\ FreshState

\* get_words_and_probs(prefix) of the completor built, as a query result
WordsAndProbs(prefix) ==
    LET r == get_words_and_probs(counter, total_count, prefix_tree, prefix)
    IN [raised |-> FALSE, words |-> r.words, probs |-> r.probs]

QueryWords ==
    \E prefix \in Prefixes : Answered("get_words_and_probs", prefix, WordsAndProbs(prefix), ngram)

NextCompletor == QueryWords

SpecCompletor == InitCompletor /\ [][NextCompletor]_vars

----------------------------------------------------------------------------
(* The prefix tree on its own: built from any list of words, then queried. *)

VocabLists == StrsOver(Words, 0, MaxVocab)

InitTrie ==
    /\ \E vocab \in VocabLists :
           /\ vocabulary = vocab
           /\ \E order \in SetOrders(vocab) : prefix_tree = PrefixTree(order)
    /\ corpus = <<>>
    /\ min_freq = AppMinFreq
    /\ counter = <<>>
    /\ total_count = 0
    /\ ngram = NGramLanguageModel(<<>>, AppOrder)
    /\ FreshState

\* search_prefix(prefix) of the tree built, as a query result
SearchResult(prefix) ==
    [raised |-> FALSE, words |-> search_prefix(prefix_tree, prefix), probs |-> <<>>]

QuerySearch ==
    \E prefix \in Prefixes : Answered("search_prefix", prefix, SearchResult(prefix), ngram)

NextTrie == QuerySearch

SpecTrie == InitTrie /\ [][NextTrie]_vars

----------------------------------------------------------------------------
(* TextSuggestion on its own: built over the two models, then queried. *)

MaxWords == 2
MaxTexts == 2

\* the texts suggest_text is queried with: strings, and token lists that
\* may hold an empty token
SuggestStrs == StrsOver(Chars, 0, 3)
SuggestLists == StrsOver({W_a, W_b, <<>>}, 0, 2)

\* the corpora TextSuggestion is built over: the empty one, the one of the
\* shape of the fallback corpus, the one whose context (a, a) is first
\* followed by its rarer next word, and the one whose word a is rarer than
\* the word ab it is a prefix of
SuggestCorpora ==
    { <<>>,
      << <<W_ab, W_b>>, <<W_ab, W_a>>, <<W_ba, W_a, W_b>> >>,
      << <<W_a, W_a, W_b>>, <<W_a, W_a, W_a, W_a>> >>,
      << <<W_ab, W_a, W_ab>> >> }

InitSuggest ==
    /\ \E docs \in SuggestCorpora, n \in 1..MaxOrder : Construct(docs, AppMinFreq, n)
    /\ FreshState

\* suggest_text(t, n_words, n_texts) of the models built, as a query result
Continuations(t, n_words, n_texts) ==
    [raised |-> FALSE, words |-> suggest_text(t, n_words, n_texts), probs |-> <<>>]

Suggested(t, n_words, n_texts) ==
    Answered("suggest_text", [text |-> t, n_words |-> n_words, n_texts |-> n_texts],
             Continuations(t, n_words, n_texts), ngram_after_suggest_text(t, n_words))

QuerySuggest ==
    \E n_words \in 0..MaxWords, n_texts \in 0..MaxTexts :
        \/ \E s \in SuggestStrs : Suggested(StrText(s), n_words, n_texts)
        \/ \E ts \in SuggestLists : Suggested(ListText(ts), n_words, n_texts)

NextSuggest == QuerySuggest

SpecSuggest == InitSuggest /\ [][NextSuggest]_vars

----------------------------------------------------------------------------
(* The application with a client of its models: the events of the input   *)
(* box, and between them the queries of the models about the text typed.  *)

\* the prefixes asked about: the tokens typed, and the empty prefix
TypedPrefixes == Range(split(text)) \cup {<<>>}

SearchTyped ==
    \E prefix \in TypedPrefixes :
        Answered("search_prefix", prefix, SearchResult(prefix), ngram)

WordsTyped ==
    \E prefix \in TypedPrefixes :
        Answered("get_words_and_probs", prefix, WordsAndProbs(prefix), ngram)

NextWordsTyped ==
    /\ Len(split(text)) >= ngram.n
    /\ Answered("get_next_words_and_probs", split(text),
                get_next_words_and_probs(ngram, split(text)),
                after_get_next_words_and_probs(ngram, split(text)))

\* _text_suggester.suggest_text(text), n_words and n_texts left to default
SuggestTyped == Suggested(StrText(text), DefaultWords, DefaultTexts)

NextEngine ==
    \/ UpdateText
    \/ ApplySuggestion
    \/ OnKeyDown
    \/ SearchTyped
    \/ WordsTyped
    \/ NextWordsTyped
    \/ SuggestTyped

SpecEngine == Init /\ [][NextEngine]_vars

----------------------------------------------------------------------------
(* What the claims speak of, stated from the corpus and the buffer rather *)
(* than from the handlers.                                                 *)

Min(x, y) == IF x < y THEN x ELSE y

\* the tokens of the buffer
Tokens(t) == split(t)

Blank(t) == \A i \in 1..Len(t) : isspace(t[i])

EndsInWhitespace(t) == t # <<>> /\ isspace(Last(t))

EndsInsideWord(t) == t # <<>> /\ ~isspace(Last(t))

\* what one run of the policy on the buffer t alone gives
Policy(t) == update_text(PlainValue(t))

\* The words of a (words, probs) result by descending probability, a tie in
\* the order of the result: the word at position r is the one that exactly
\* r - 1 others precede.
Precedes(wp, i, j) ==
    \/ FracLess(wp.probs[j], wp.probs[i])
    \/ (~FracLess(wp.probs[i], wp.probs[j]) /\ i < j)

Ranked(wp) ==
    [r \in 1..Len(wp.words) |->
        wp.words[CHOOSE i \in 1..Len(wp.words) :
            Cardinality({j \in 1..Len(wp.words) : Precedes(wp, j, i)}) = r - 1]]

\* s without the later occurrences of an element
RECURSIVE Distinct(_)
Distinct(s) ==
    IF s = <<>> THEN <<>>
    ELSE LET front == Distinct(SubSeq(s, 1, Len(s) - 1)) IN
         IF Contains(front, Last(s)) THEN front ELSE Append(front, Last(s))

Completions(prefix) == get_words_and_probs(counter, total_count, prefix_tree, prefix)

\* the whole vocabulary by descending frequency
GlobalRanking == Ranked(Completions(<<>>))

\* what the n-gram model answers for the tokens of the buffer
ContextAnswer(t) == get_next_words_and_probs(ngram, Tokens(t))

\* the candidates of the primary sources: the completions of the last token
\* of a buffer that ends inside a word, and the next words of the context
PrimaryCandidates(t) ==
    (IF EndsInsideWord(t) THEN Range(Completions(Last(Tokens(t))).words) ELSE {})
        \cup Range(ContextAnswer(t).words)

\* an accept event was the last event: a click on a suggestion, or Enter
\* with a suggestion to take
Accepted ==
    \/ event.op = "apply_suggestion"
    \/ (event.op = "on_key_down" /\ event.key = "Enter" /\ event.word # <<>>)

----------------------------------------------------------------------------
(* The claims. *)

\* C1: no hidden history.  In every reachable state the stored suggestions
\* and ghost suffix are those one run of the policy computes from the
\* current buffer alone, whatever events led to the buffer.
C1_NoHiddenHistory ==
    LET r == Policy(text) IN
    /\ ~r.raised
    /\ r.text = text
    /\ suggestions = r.suggestions
    /\ ghost_suffix = r.ghost_suffix

\* a buffer reached by accepting a suggestion, with a full suggestion list
C1_Witness ==
    /\ Accepted
    /\ Len(event.before) >= 2
    /\ Len(suggestions) = MaxSuggestions
    /\ ghost_suffix # <<>>

\* C2: the suggestion list never holds more than 3 entries nor a duplicate,
\* and for a buffer with a non-whitespace character it holds exactly 3
\* whenever the retained vocabulary holds at least 3 words (so also when the
\* primary sources yield fewer than 3 candidates).
C2_BackfillGuarantee ==
    /\ Len(suggestions) <= MaxSuggestions
    /\ NoDuplicates(suggestions)
    /\ (~Blank(text) /\ Cardinality(Range(Keys(counter))) >= 3)
           => Len(suggestions) = MaxSuggestions

\* the primary sources gave one or two candidates and backfill made it three
C2_Witness ==
    /\ event.op = "update_text"
    /\ ~Blank(text)
    /\ Cardinality(Range(Keys(counter))) >= 3
    /\ Cardinality(PrimaryCandidates(text)) \in {1, 2}
    /\ Len(suggestions) = MaxSuggestions
    /\ NoDuplicates(suggestions)

\* C3: when the buffer ends in whitespace and the n-gram model has an entry
\* for the context of its last N tokens, the list starts with the up-to-3
\* next words of that context by descending probability (no next word left
\* out is more probable than one taken, and the list descends), and the
\* ghost suffix is suggestions[0].
C3_ContextRanking ==
    LET a == ContextAnswer(text)
        k == Min(MaxSuggestions, Len(a.words))
        P(w) == a.probs[CHOOSE i \in 1..Len(a.words) : a.words[i] = w]
    IN (EndsInWhitespace(text) /\ ~Blank(text) /\ ~a.raised /\ a.words # <<>>) =>
           /\ Len(suggestions) >= k
           /\ \A i \in 1..k : suggestions[i] \in Range(a.words)
           /\ \A i, j \in 1..k : i < j => ~FracLess(P(suggestions[i]), P(suggestions[j]))
           /\ \A i \in 1..k : \A w \in Range(a.words) \ Range(Take(suggestions, k)) :
                  ~FracLess(P(suggestions[i]), P(w))
           /\ ghost_suffix = suggestions[1]

\* C4: when the buffer ends inside a word, the list starts with the up-to-3
\* completions of the last token by descending probability, ties in the order
\* the completor returned them; the ghost suffix is what the top suggestion
\* adds to the token when it starts with it, the whole top suggestion when it
\* does not, and empty when there is no suggestion.
C4_MidWord ==
    EndsInsideWord(text) =>
        LET prefix == Last(Tokens(text))
            top == Take(Ranked(Completions(prefix)), MaxSuggestions)
        IN /\ Take(suggestions, Len(top)) = top
           /\ Len(suggestions) >= Len(top)
           /\ suggestions = <<>> => ghost_suffix = <<>>
           /\ suggestions # <<>> =>
                  IF startswith(suggestions[1], prefix)
                  THEN prefix \o ghost_suffix = suggestions[1]
                  ELSE ghost_suffix = suggestions[1]

\* two completions ranked against the order of the tree, a proper ghost suffix
C4_Witness ==
    /\ event.op = "update_text"
    /\ EndsInsideWord(text)
    /\ LET c == Completions(Last(Tokens(text))) IN
           /\ \E i, j \in 1..Len(c.words) : i < j /\ FracLess(c.probs[i], c.probs[j])
           /\ Take(suggestions, 2) = Take(Ranked(c), 2)
    /\ ghost_suffix # <<>>
    /\ Last(Tokens(text)) \o ghost_suffix = suggestions[1]

\* the top suggestion does not start with the token typed: the ghost is the
\* whole suggestion
C4_WitnessReplacement ==
    /\ event.op = "update_text"
    /\ EndsInsideWord(text)
    /\ suggestions # <<>>
    /\ ~startswith(suggestions[1], Last(Tokens(text)))
    /\ ghost_suffix = suggestions[1]

\* the buffer before its last token
BeforeLastToken(t) ==
    LET trimmed == rstrip(t) IN SubSeq(t, 1, Len(trimmed) - Len(Last(Tokens(t))))

\* C5 as stated: accepting w in a buffer that holds a token, partial or
\* complete, leaves the old buffer with its last token replaced by w and a
\* trailing space, and the suggestions and ghost suffix of that buffer.
C5_ReplacesLastToken ==
    (Accepted /\ Tokens(event.before) # <<>>) =>
        /\ text = BeforeLastToken(event.before) \o event.word \o <<Space>>
        /\ suggestions = Policy(text).suggestions
        /\ ghost_suffix = Policy(text).ghost_suffix

\* C5 as amended: accepting w in a buffer that ends inside a word leaves its
\* tokens, the last replaced by w, joined by single spaces and followed by a
\* space; in a buffer that holds a token and ends in whitespace it leaves the
\* old buffer followed by w and a space; either way with the suggestions and
\* ghost suffix of the new buffer.
C5_AcceptSuggestion ==
    (Accepted /\ Tokens(event.before) # <<>>) =>
        LET old == Tokens(event.before) IN
        /\ EndsInsideWord(event.before) =>
               /\ Tokens(text) = [old EXCEPT ![Len(old)] = event.word]
               /\ text = join(Tokens(text)) \o <<Space>>
        /\ EndsInWhitespace(event.before) =>
               text = event.before \o event.word \o <<Space>>
        /\ suggestions = Policy(text).suggestions
        /\ ghost_suffix = Policy(text).ghost_suffix

\* a partial last token of a buffer of two tokens was replaced
C5_Witness ==
    /\ Accepted
    /\ Len(Tokens(event.before)) = 2
    /\ EndsInsideWord(event.before)
    /\ Last(Tokens(event.before)) # event.word
    /\ Len(Tokens(text)) = 2
    /\ suggestions # <<>>

\* a word was accepted after a complete token
C5_WitnessAppend ==
    /\ Accepted
    /\ Tokens(event.before) # <<>>
    /\ EndsInWhitespace(event.before)
    /\ Len(Tokens(text)) = Len(Tokens(event.before)) + 1

\* C6: no handler ends by raising; a buffer of fewer than N tokens gets its
\* suggestions from the completions of its last token and the global
\* ranking alone; an empty or whitespace-only buffer gets no suggestion and
\* an empty ghost suffix.
C6_NoFailure ==
    /\ ~raised
    /\ Blank(text) => (suggestions = <<>> /\ ghost_suffix = <<>>)
    /\ (~Blank(text) /\ Len(Tokens(text)) < ngram.n) =>
           LET own == IF EndsInsideWord(text)
                      THEN Ranked(Completions(Last(Tokens(text))))
                      ELSE <<>>
           IN suggestions =
                  Take(Distinct(Take(own, MaxSuggestions) \o GlobalRanking), MaxSuggestions)

\* a single complete token, too short a context, and three suggestions
C6_Witness ==
    /\ event.op = "update_text"
    /\ EndsInWhitespace(text)
    /\ Len(Tokens(text)) = 1
    /\ Len(Tokens(text)) < ngram.n
    /\ ContextAnswer(text).raised
    /\ Len(suggestions) = MaxSuggestions
    /\ ~raised

----------------------------------------------------------------------------
(* The claims about the core objects, stated from the corpus. *)

\* the places of the corpus: token i of document d
Places == UNION {{<<d, i>> : i \in 1..Len(corpus[d])} : d \in 1..Len(corpus)}

\* the places <<d, i>> of the corpus where the context is followed by next
\* inside document d
FollowedAt(context, next) ==
    {di \in Places :
        LET sent == corpus[di[1]]
            i == di[2]
        IN /\ i + Len(context) <= Len(sent)
           /\ SubSeq(sent, i, i + Len(context) - 1) = context
           /\ sent[i + Len(context)] = next}

CorpusTokens == UNION {Range(corpus[d]) : d \in 1..Len(corpus)}

\* the context was observed: some token follows it inside a document
Observed(context) == \E next \in CorpusTokens : FollowedAt(context, next) # {}

\* the contexts of length n the corpus holds
ObservedContexts(n) ==
    {c \in UNION {{SubSeq(corpus[d], i, i + n - 1) : i \in 1..(Len(corpus[d]) - n)} :
                      d \in 1..Len(corpus)} : Observed(c)}

\* the last n tokens of a sequence
LastTokens(seq, n) == SubSeq(seq, Len(seq) - n + 1, Len(seq))

\* C7: get_next_words_and_probs raises exactly when the sequence is shorter
\* than N, and returns ([], []) exactly when the sequence has N tokens or
\* more and its last N tokens were never observed as a context; a model of
\* order below 1 is not built.
C7_NothingFound ==
    /\ ngram.built <=> ngram.n >= 1
    /\ ~ngram.built => (ngram.next_counts = <<>> /\ ngram.context_totals = <<>>)
    /\ query.op = "get_next_words_and_probs" =>
           LET seq == query.arg
               r == query.result
               empty == ~r.raised /\ r.words = <<>> /\ r.probs = <<>>
           IN /\ r.raised <=> Len(seq) < ngram.n
              /\ empty <=> (Len(seq) >= ngram.n /\ ~Observed(LastTokens(seq, ngram.n)))
              /\ r.raised => (r.words = <<>> /\ r.probs = <<>>)

\* an unseen context of exactly N tokens answered ([], []) by a model that
\* holds contexts
C7_Witness ==
    /\ query.op = "get_next_words_and_probs"
    /\ Len(query.arg) = ngram.n
    /\ ngram.next_counts # <<>>
    /\ ~query.result.raised
    /\ query.result.words = <<>>

\* a sequence shorter than N refused
C7_WitnessRaised ==
    /\ query.op = "get_next_words_and_probs"
    /\ query.arg # <<>>
    /\ Len(query.arg) < ngram.n
    /\ query.result.raised

\* C8: the contexts recorded are exactly the N-token windows followed by a
\* token inside their document; the count of (context, next) is the number
\* of such places; the counts of a context are positive and sum to its
\* total; so the probabilities returned for a context are count / total
\* and their counts sum to the total.
C8_ContextTable ==
    ngram.built =>
        LET nc == ngram.next_counts
            ct == ngram.context_totals
        IN /\ NoDuplicates(Keys(nc)) /\ NoDuplicates(Keys(ct))
           /\ Range(Keys(nc)) = ObservedContexts(ngram.n)
           /\ Range(Keys(ct)) = ObservedContexts(ngram.n)
           /\ \A c \in Range(Keys(nc)) :
                  LET counts == Get(nc, c) IN
                  /\ NoDuplicates(Keys(counts))
                  /\ Range(Keys(counts)) = {w \in CorpusTokens : FollowedAt(c, w) # {}}
                  /\ \A w \in Range(Keys(counts)) :
                         /\ Get(counts, w) = Cardinality(FollowedAt(c, w))
                         /\ Get(counts, w) > 0
                  /\ SumSeq(Values(counts)) = Get(ct, c)
           /\ (query.op = "get_next_words_and_probs" /\ query.result.words # <<>>) =>
                  LET r == query.result
                      c == LastTokens(query.arg, ngram.n)
                  IN /\ Len(r.probs) = Len(r.words)
                     /\ \A i \in 1..Len(r.words) :
                            r.probs[i] = <<Cardinality(FollowedAt(c, r.words[i])), Get(ct, c)>>
                     /\ SumSeq([i \in 1..Len(r.probs) |-> r.probs[i][1]]) = Get(ct, c)

\* a context seen three times with two next words, queried
C8_Witness ==
    /\ ngram.built
    /\ query.op = "get_next_words_and_probs"
    /\ Len(query.result.words) = 2
    /\ \E i \in 1..2 : query.result.probs[i] = <<2, 3>>
    /\ Len(corpus) = 2

\* C9: search_prefix(p) returns, without repetition, exactly the inserted
\* words that start with p.
C9_PrefixExact ==
    query.op = "search_prefix" =>
        /\ ~query.result.raised
        /\ NoDuplicates(query.result.words)
        /\ Range(query.result.words) = {w \in Range(vocabulary) : startswith(w, query.arg)}

\* a proper prefix of two stored words, itself not stored, in a vocabulary
\* list that repeats a word
C9_Witness ==
    /\ query.op = "search_prefix"
    /\ query.arg # <<>>
    /\ query.arg \notin Range(vocabulary)
    /\ Len(query.result.words) = 2
    /\ ~NoDuplicates(vocabulary)

\* the number of occurrences of w in the corpus
Occurrences(w) ==
    Cardinality({di \in Places : corpus[di[1]][di[2]] = w})

\* the words the threshold keeps
Retained == {w \in CorpusTokens : Occurrences(w) >= (IF min_freq > 1 THEN min_freq ELSE 1)}

RECURSIVE MassOf(_)
MassOf(S) ==
    IF S = {} THEN 0
    ELSE LET w == CHOOSE x \in S : TRUE IN Occurrences(w) + MassOf(S \ {w})

\* C10: total_mass is the sum of the counts of the retained words; every
\* word returned is retained and paired with count / total_mass; for the
\* empty prefix the words are the whole retained vocabulary and their
\* counts sum to total_mass, for another prefix to at most total_mass; with
\* a total mass of zero, or no retained word matching, the result is two
\* empty sequences.
C10_CompletorMass ==
    /\ total_count = MassOf(Retained)
    /\ query.op = "get_words_and_probs" =>
           LET r == query.result
               p == query.arg
               counts == [i \in 1..Len(r.probs) |-> r.probs[i][1]]
           IN /\ ~r.raised
              /\ Len(r.probs) = Len(r.words)
              /\ NoDuplicates(r.words)
              /\ Range(r.words) = {w \in Retained : startswith(w, p)}
              /\ \A i \in 1..Len(r.words) :
                     /\ r.probs[i] = <<Occurrences(r.words[i]), MassOf(Retained)>>
                     /\ r.probs[i][1] >= (IF min_freq > 1 THEN min_freq ELSE 1)
                     /\ r.probs[i][2] > 0
              /\ p = <<>> => SumSeq(counts) = MassOf(Retained)
              /\ SumSeq(counts) <= MassOf(Retained)
              /\ (MassOf(Retained) = 0 \/ {w \in Retained : startswith(w, p)} = {})
                     => (r.words = <<>> /\ r.probs = <<>>)

\* a prefix query on a vocabulary the threshold has cut, matching a proper
\* part of what is left
C10_Witness ==
    /\ min_freq = 2
    /\ Retained # CorpusTokens
    /\ query.op = "get_words_and_probs"
    /\ query.arg # <<>>
    /\ query.result.words # <<>>
    /\ query.result.probs[1][1] >= 2

\* a prefix that matches a proper part of the vocabulary: less than the mass
C10_WitnessPart ==
    /\ query.op = "get_words_and_probs"
    /\ query.arg # <<>>
    /\ query.result.words # <<>>
    /\ SumSeq([i \in 1..Len(query.result.probs) |-> query.result.probs[i][1]]) < total_count

\* every word filtered out: no mass, no division, two empty sequences
C10_WitnessZeroMass ==
    /\ corpus # <<>>
    /\ CorpusTokens # {}
    /\ total_count = 0
    /\ query.op = "get_words_and_probs"
    /\ query.result.words = <<>>

\* what suggest_text was asked and what it returned
Asked == query.arg
Returned == query.result.words
AskedTokens == Normalise(Asked.text)

\* the tokens the n-gram model is given once the continuation c has i tokens
ContextOf(c, i) == SubSeq(AskedTokens, 1, Len(AskedTokens) - 1) \o SubSeq(c, 1, i)

\* c is what the claim describes for n_words: the best completion of the
\* last token, then next tokens each the most probable after the tokens
\* before it (the first of the answer on a tie), n_words of them unless the
\* n-gram model refuses or has nothing to give for what precedes
GreedyContinuation(c, n_words) ==
    /\ Len(c) >= 1
    /\ c[1] = Ranked(Completions(Last(AskedTokens)))[1]
    /\ Len(c) - 1 <= (IF n_words > 0 THEN n_words ELSE 0)
    /\ \A i \in 2..Len(c) :
           LET a == get_next_words_and_probs(ngram, ContextOf(c, i - 1)) IN
           ~a.raised /\ a.words # <<>> /\ c[i] = Ranked(a)[1]
    /\ Len(c) - 1 < n_words =>
           LET a == get_next_words_and_probs(ngram, ContextOf(c, Len(c))) IN
           a.raised \/ a.words = <<>>

HasCompletion == AskedTokens # <<>> /\ Completions(Last(AskedTokens)).words # <<>>

\* C11: for every non-empty token input whose last token has a completion,
\* suggest_text returns a list of exactly one continuation whatever n_texts
\* is: the highest-scoring completion of the last token (the first met on a
\* tie), then at most n_words greedily chosen next tokens, stopping as soon
\* as the n-gram model returns no candidates or signals insufficient
\* context; empty input or a last token without completion returns [].
C11_OneContinuation ==
    query.op = "suggest_text" =>
        IF HasCompletion
        THEN Len(Returned) = 1 /\ GreedyContinuation(Returned[1], Asked.n_words)
        ELSE Returned = <<>>

\* the same with the slice [:n_texts] taken into account: one continuation
\* for n_texts >= 1, none for n_texts = 0
C11_OneContinuationWhenAsked ==
    query.op = "suggest_text" =>
        IF HasCompletion /\ Asked.n_texts >= 1
        THEN Len(Returned) = 1 /\ GreedyContinuation(Returned[1], Asked.n_words)
        ELSE Returned = <<>>

\* a continuation of a completion that differs from the token typed, chosen
\* on a tie, extended once and stopped before n_words
C11_WitnessGreedy ==
    /\ query.op = "suggest_text"
    /\ HasCompletion
    /\ Asked.n_texts = MaxTexts
    /\ Len(Returned) = 1
    /\ Returned[1][1] # Last(AskedTokens)
    /\ Len(Returned[1]) = 2
    /\ Asked.n_words = 2

\* a list of no continuation for a token that has a completion
C11_WitnessNone ==
    /\ query.op = "suggest_text"
    /\ HasCompletion
    /\ Asked.n_texts = 0
    /\ Returned = <<>>

\* C12: the models are frozen after construction.  No query (search_prefix,
\* get_words_and_probs, get_next_words_and_probs, of unseen contexts and
\* unknown words too, suggest_text) and no event of the input box
\* (update_text, apply_suggestion, on_key_down) adds, removes or changes a
\* trie node, a vocabulary count, the total mass, a context key, a
\* next-token count or a context total: every step leaves the corpus-built
\* objects as they were, and changes the State fields at most.
C12_ModelsFrozen ==
    [][/\ prefix_tree' = prefix_tree
       /\ vocabulary' = vocabulary
       /\ counter' = counter
       /\ total_count' = total_count
       /\ ngram' = ngram
       /\ corpus' = corpus
       /\ min_freq' = min_freq]_vars

\* the n-gram model was asked for a context it never observed, answered
\* with nothing, and holds no entry for that context afterwards
C12_Witness ==
    /\ query.op = "get_next_words_and_probs"
    /\ Len(query.arg) >= ngram.n
    /\ ngram.next_counts # <<>>
    /\ ~query.result.raised
    /\ query.result.words = <<>>
    /\ ~Has(ngram.next_counts, LastTokens(query.arg, ngram.n))

\* the same through the input box: a buffer ending in whitespace whose last
\* tokens are an unseen context, just handled by update_text
C12_WitnessTyped ==
    /\ event.op = "update_text"
    /\ EndsInWhitespace(text)
    /\ Len(Tokens(text)) >= ngram.n
    /\ ngram.next_counts # <<>>
    /\ ~Has(ngram.next_counts, LastTokens(Tokens(text), ngram.n))

\* suggest_text answered for a token no word of the vocabulary starts with
C12_WitnessUnknownWord ==
    /\ query.op = "suggest_text"
    /\ counter # <<>>
    /\ AskedTokens # <<>>
    /\ Completions(Last(AskedTokens)).words = <<>>
    /\ Returned = <<>>

\* the models are at every moment what construction makes of the corpus
C12_AsBuilt ==
    /\ counter = BuildCounter(corpus, min_freq)
    /\ total_count = TotalCount(counter)
    /\ vocabulary = Keys(counter)
    /\ ngram = NGramLanguageModel(corpus, ngram.n)
    /\ \E order \in SetOrders(vocabulary) : prefix_tree = PrefixTree(order)

====
